---- MODULE Spec2Model ----
(***************************************************************************)
(* A model of claude_code_components.py: the resolution of the claude      *)
(* executable (ensure_claude_code_available), the execution context, the   *)
(* argument vectors the components build, the subprocess each component    *)
(* runs, and the analysis of the captured output.                          *)
(*                                                                         *)
(* The outside world is part of the state: the credential variable of the  *)
(* process environment, whether the private binary exists, and how the     *)
(* programs on the host answer when they are run.  A component call is one *)
(* action; what it leaves behind (the ports it assigned, the subprocesses  *)
(* it ran, whether it raised) is the record `out`.                         *)
(***************************************************************************)
EXTENDS Integers, Sequences, FiniteSets, TLC

VARIABLES
    environ,         \* os.environ: [ANTHROPIC_API_KEY |-> string], "" when unset
    claude_bin_ok,   \* os.path.exists(claude_bin) and os.access(claude_bin, X_OK)
    host,            \* how the host's programs behave: [global_claude, local_probe, npm]
    ctx,             \* the execution context: a dict with keys among claude_cmd, claude_config
    out,             \* the last component call: [op, raised, had_cmd, ensured, args, run,
                     \* ports, procs]: the ports it assigned, the subprocesses it ran,
                     \* whether the context held a path before it, whether it resolved
    resolutions      \* the last calls of ensure_claude_code_available on ctx, oldest first

vars == <<environ, claude_bin_ok, host, ctx, out, resolutions>>

----------------------------------------------------------------------------
(* Paths and fixed strings of the source. *)

Cwd == "/cwd"                                            \* os.getcwd()
ClaudeDir == "/home/u/.claude_code"                      \* claude_dir
LocalBin == "/home/u/.claude_code/node_modules/.bin/claude"   \* claude_bin
GlobalBin == "/usr/local/bin/claude"                     \* shutil.which('claude')

DefaultTimeout == 120
GlobalProbeTimeout == 5
FinalProbeTimeout == 10

\* How many calls of ensure_claude_code_available the history keeps.
MaxLog == 2

ProbeOutcomes == {"ok", "nonzero", "timeout"}
NpmOutcomes == {"installs", "exit0_no_binary", "fails", "missing"}

----------------------------------------------------------------------------
(* Python helpers. *)

\* dict[key] = value
Put(d, k, v) == [x \in DOMAIN d \cup {k} |-> IF x = k THEN v ELSE d[x]]

\* `a or b` on strings and on numbers
OrStr(a, b) == IF a # "" THEN a ELSE b
OrInt(a, b) == IF a # 0 THEN a ELSE b

\* a subprocess.run call: the argument vector, the working directory, the
\* timeout (0: none) and the text given as standard input ("": none given)
Proc(argv, cwd, timeout) == [argv |-> argv, cwd |-> cwd, timeout |-> timeout, input |-> ""]

----------------------------------------------------------------------------
(* ensure_claude_code_available *)

\* faulty variant: the credential is never checked
CredentialUnchecked(env) == FALSE

\* if not os.environ.get('ANTHROPIC_API_KEY')
CredentialMissing(env) == env["ANTHROPIC_API_KEY"] = ""

\* the outcome of `<cmd> --version` on this host
ProbeOf(cmd) == IF cmd = LocalBin THEN host.local_probe ELSE host.global_claude

\* faulty variant: the private binary is not looked for, only a global one
SearchSkipsPrivate ==
    IF host.global_claude = "absent"
    THEN [cmd |-> "", procs |-> <<>>]
    ELSE [cmd |-> IF host.global_claude = "ok" THEN GlobalBin ELSE "",
          procs |-> <<Proc(<<GlobalBin, "--version">>, Cwd, GlobalProbeTimeout)>>]

\* faulty variant: a binary found on PATH is chosen whatever its probe says
SearchTrustsGlobal ==
    IF claude_bin_ok
    THEN [cmd |-> LocalBin, procs |-> <<>>]
    ELSE IF host.global_claude = "absent"
         THEN [cmd |-> "", procs |-> <<>>]
         ELSE [cmd |-> GlobalBin,
               procs |-> <<Proc(<<GlobalBin, "--version">>, Cwd, GlobalProbeTimeout)>>]

\* lines 37-56: the private binary first, then a global one whose probe exits 0
\* [cmd, procs]; cmd = "" is claude_cmd = None
SearchClaude ==
    IF claude_bin_ok
    THEN [cmd |-> LocalBin, procs |-> <<>>]
    ELSE IF host.global_claude = "absent"
         THEN [cmd |-> "", procs |-> <<>>]
         ELSE [cmd |-> IF host.global_claude = "ok" THEN GlobalBin ELSE "",
               procs |-> <<Proc(<<GlobalBin, "--version">>, Cwd, GlobalProbeTimeout)>>]

NpmProc == Proc(<<"npm", "install", "@anthropic-ai/claude-code">>, ClaudeDir, 0)

\* lines 58-99: npm install into the private directory, then the binary must be there
\* [raised, cmd, procs, bin_ok]
InstallClaude ==
    [raised |-> host.npm # "installs",
     cmd    |-> IF host.npm = "installs" THEN LocalBin ELSE "",
     procs  |-> <<NpmProc>>,
     bin_ok |-> host.npm = "installs"]

\* faulty variant: whatever was resolved is stored without the final probe's verdict
FinalProbeSkipped(cmd) == TRUE

\* lines 101-116: the final `--version` probe passes
FinalProbePasses(cmd) == ProbeOf(cmd) = "ok"

\* The whole function under environment env on context c:
\* [raised, ctx, procs, bin_ok, cmd, installs], ctx and bin_ok as the call leaves them
ensure_claude_code_available(env, c) ==
    IF CredentialMissing(env)
    THEN [raised |-> TRUE, ctx |-> c, procs |-> <<>>, bin_ok |-> claude_bin_ok,
          cmd |-> "", installs |-> 0]
    ELSE LET found == SearchClaude
             inst  == IF found.cmd = ""
                      THEN InstallClaude
                      ELSE [raised |-> FALSE, cmd |-> found.cmd, procs |-> <<>>,
                            bin_ok |-> claude_bin_ok]
             procs == found.procs \o inst.procs
             n     == Len(inst.procs)
         IN  IF inst.raised
             THEN [raised |-> TRUE, ctx |-> c, procs |-> procs, bin_ok |-> inst.bin_ok,
                   cmd |-> "", installs |-> n]
             ELSE LET all == procs \o <<Proc(<<inst.cmd, "--version">>, Cwd, FinalProbeTimeout)>>
                  IN  IF FinalProbePasses(inst.cmd)
                      THEN [raised |-> FALSE, ctx |-> Put(c, "claude_cmd", inst.cmd),
                            procs |-> all, bin_ok |-> inst.bin_ok,
                            cmd |-> inst.cmd, installs |-> n]
                      ELSE [raised |-> TRUE, ctx |-> c, procs |-> all,
                            bin_ok |-> inst.bin_ok, cmd |-> "", installs |-> n]

\* the history of resolutions, the oldest dropped beyond MaxLog
Logged(r) ==
    LET e == [ok |-> ~r.raised, cmd |-> r.cmd, installs |-> r.installs]
        l == Append(resolutions, e)
    IN  IF Len(l) > MaxLog THEN Tail(l) ELSE l

----------------------------------------------------------------------------
(* get_claude_config *)

HasConfig(c) == "claude_config" \in DOMAIN c

\* get_claude_config(ctx, key, default) with a default that is not None
get_claude_config(c, key, default) ==
    IF ~HasConfig(c) THEN default ELSE c["claude_config"][key]

\* get_claude_config(ctx, key) with no default raises when there is no configuration
ConfigRaises(c) == ~HasConfig(c)

\* `if 'claude_cmd' not in ctx: ensure_claude_code_available(ctx)`;
\* ran tells whether the function was called
EnsureIfAbsent(env, c) ==
    IF "claude_cmd" \in DOMAIN c
    THEN [raised |-> FALSE, ctx |-> c, procs |-> <<>>, bin_ok |-> claude_bin_ok,
          cmd |-> c["claude_cmd"], installs |-> 0, ran |-> FALSE]
    ELSE [ran |-> TRUE] @@ ensure_claude_code_available(env, c)

\* an unconditional call
EnsureAlways(env, c) == [ran |-> TRUE] @@ ensure_claude_code_available(env, c)

----------------------------------------------------------------------------
(* Text.  Captured output is scanned, so it is a sequence of lexemes: words, *)
(* numbers (maximal runs of digits), punctuation and white space.            *)

W(s) == [t |-> "word", s |-> s, n |-> 0]
N(n) == [t |-> "num", s |-> "", n |-> n]
P(s) == [t |-> "punct", s |-> s, n |-> 0]
Sp == [t |-> "space", s |-> " ", n |-> 0]
Nl == [t |-> "space", s |-> "\n", n |-> 0]

\* f"Command timed out after {timeout} seconds"
TimeoutMessage(timeout) ==
    <<W("Command"), Sp, W("timed"), Sp, W("out"), Sp, W("after"), Sp, N(timeout), Sp,
      W("seconds")>>

\* str(e) of the OSError of a child that could not be spawned
SpawnErrorMessage == <<P("["), W("Errno"), Sp, N(2), P("]"), Sp, W("No such file or directory")>>

\* f"Error: {str(e)}"
ErrorPrefix(msg) == <<W("Error"), P(":"), Sp>> \o msg

----------------------------------------------------------------------------
(* The subprocess a component runs.  How the child ends is an input of the  *)
(* call: it exits with a code, it exceeds the timeout, or it cannot be      *)
(* spawned (the executable is gone, the working directory is missing).      *)

Exit(rc, stdout, stderr) ==
    [kind |-> "exit", returncode |-> rc, stdout |-> stdout, stderr |-> stderr, elapsed |-> 1]
TimedOut == [kind |-> "timeout", returncode |-> 0, stdout |-> <<>>, stderr |-> <<>>, elapsed |-> 2]
SpawnFails == [kind |-> "oserror", returncode |-> 0, stdout |-> <<>>, stderr |-> <<>>, elapsed |-> 0]

\* result.stdout if result.stdout else result.stderr
StdoutOrStderr(run) == IF run.stdout # <<>> THEN run.stdout ELSE run.stderr

----------------------------------------------------------------------------
(* ClaudeCodeExecute: the argument vector *)

\* cmd_parts.extend(['--permission-mode', 'bypassPermissions'])
PermissionArgs == <<"--permission-mode", "bypassPermissions">>

\* faulty variant: the process's directory is allowed instead of the configured one
AddDirCwd(working_dir) == <<"--add-dir", Cwd>>

\* cmd_parts.extend(['--add-dir', working_dir])
AddDirArgs(working_dir) == <<"--add-dir", working_dir>>

\* --debug, --verbose and --model, each only if configured
OptionArgs(debug, verbose, model) ==
    (IF debug THEN <<"--debug">> ELSE <<>>)
    \o (IF verbose THEN <<"--verbose">> ELSE <<>>)
    \o (IF model # "" THEN <<"--model", model>> ELSE <<>>)

\* if self.print_mode.value is not False; the port holds None, True or False
PrintArgs(print_mode) ==
    IF print_mode # "False" THEN <<"--print", "--output-format", "json">> ELSE <<>>

\* two independent ifs: --continue, then --resume <id>
SessionArgs(continue_conversation, resume_session) ==
    (IF continue_conversation THEN <<"--continue">> ELSE <<>>)
    \o (IF resume_session # "" THEN <<"--resume", resume_session>> ELSE <<>>)

\* str.split(): the words of a text, the white space between them dropped
RECURSIVE Split(_)
Split(text) ==
    IF text = <<>> THEN <<>>
    ELSE IF Head(text) = " " THEN Split(Tail(text))
    ELSE <<Head(text)>> \o Split(Tail(text))

\* if self.additional_options.value: cmd_parts.extend(....split())
AdditionalArgs(additional_options) ==
    IF additional_options # <<>> THEN Split(additional_options) ELSE <<>>

\* if self.prompt.value: cmd_parts.append(self.prompt.value)
PromptArgs(prompt) == IF prompt # "" THEN <<prompt>> ELSE <<>>

\* faulty variant: the prompt is appended before the additional options
ExecuteArgvPromptEarly(c, a) ==
    LET cfg == c["claude_config"]
    IN  <<c["claude_cmd"]>>
        \o PermissionArgs
        \o AddDirArgs(get_claude_config(c, "working_dir", Cwd))
        \o OptionArgs(cfg.debug, cfg.verbose, cfg.model)
        \o PrintArgs(a.print_mode)
        \o SessionArgs(a.continue_conversation, a.resume_session)
        \o PromptArgs(a.prompt)
        \o AdditionalArgs(a.additional_options)

\* cmd_parts of ClaudeCodeExecute on a context holding claude_cmd and claude_config
ExecuteArgv(c, a) ==
    LET cfg == c["claude_config"]
    IN  <<c["claude_cmd"]>>
        \o PermissionArgs
        \o AddDirArgs(get_claude_config(c, "working_dir", Cwd))
        \o OptionArgs(cfg.debug, cfg.verbose, cfg.model)
        \o PrintArgs(a.print_mode)
        \o SessionArgs(a.continue_conversation, a.resume_session)
        \o AdditionalArgs(a.additional_options)
        \o PromptArgs(a.prompt)

\* the subprocess.run call of ClaudeCodeExecute: no input= is given
ExecuteProc(c, a) ==
    Proc(ExecuteArgv(c, a), get_claude_config(c, "working_dir", Cwd),
         get_claude_config(c, "timeout", DefaultTimeout))

\* faulty variant: a timeout is reported with the exit code of a child that ended
ExecutePortsNoSentinel(run, timeout, elapsed) ==
    CASE run.kind = "exit" ->
            [output |-> run.stdout, error |-> run.stderr,
             return_code |-> run.returncode, execution_time |-> elapsed]
      [] run.kind = "timeout" ->
            [output |-> <<>>, error |-> TimeoutMessage(timeout),
             return_code |-> run.returncode, execution_time |-> elapsed]
      [] OTHER ->
            [output |-> <<>>, error |-> SpawnErrorMessage,
             return_code |-> -1, execution_time |-> elapsed]

\* the ports ClaudeCodeExecute assigns, by how the child ended; elapsed is
\* time.time() - start_time
ExecutePorts(run, timeout, elapsed) ==
    CASE run.kind = "exit" ->
            [output |-> run.stdout, error |-> run.stderr,
             return_code |-> run.returncode, execution_time |-> elapsed]
      [] run.kind = "timeout" ->
            [output |-> <<>>, error |-> TimeoutMessage(timeout),
             return_code |-> -1, execution_time |-> elapsed]
      [] OTHER ->
            [output |-> <<>>, error |-> SpawnErrorMessage,
             return_code |-> -1, execution_time |-> elapsed]

----------------------------------------------------------------------------
(* ClaudeCodeChat: the argument vector *)

\* faulty variant: the prompt is appended only if provided, as ClaudeCodeExecute does
ChatPromptIfProvided(prompt) == IF prompt # "" THEN <<prompt>> ELSE <<>>

\* the prompt is appended whatever it is
ChatPromptArgs(prompt) == <<prompt>>

ChatArgv(c, a) ==
    LET cfg == c["claude_config"]
    IN  <<c["claude_cmd"], "--print">>
        \o PermissionArgs
        \o AddDirArgs(get_claude_config(c, "working_dir", Cwd))
        \o OptionArgs(cfg.debug, cfg.verbose, cfg.model)
        \o <<"--output-format", "json">>
        \o ChatPromptArgs(a.prompt)

ChatProc(c, a) ==
    Proc(ChatArgv(c, a), get_claude_config(c, "working_dir", Cwd),
         get_claude_config(c, "timeout", DefaultTimeout))

ChatPorts(run) ==
    CASE run.kind = "exit" -> [response |-> run.stdout, success |-> run.returncode = 0]
      [] run.kind = "timeout" -> [response |-> ErrorPrefix(<<W("timed out")>>), success |-> FALSE]
      [] OTHER -> [response |-> ErrorPrefix(SpawnErrorMessage), success |-> FALSE]

----------------------------------------------------------------------------
(* ClaudeCodeAnalyze: json.loads.  A JSON document is read from the lexemes *)
(* of the text: S("k") is the string literal "k", D(h) a decimal literal    *)
(* of h hundredths (0.02 is D(2)).                                          *)

S(s) == [t |-> "str", s |-> s, n |-> 0]
D(h) == [t |-> "dec", s |-> "", n |-> h]
Eof == [t |-> "eof", s |-> "", n |-> 0]

At(text, i) == IF i >= 1 /\ i <= Len(text) THEN text[i] ELSE Eof

\* the index of the first lexeme at or after i that is not white space
RECURSIVE SkipSpace(_, _)
SkipSpace(text, i) ==
    IF At(text, i).t = "space" THEN SkipSpace(text, i + 1) ELSE i

\* output_text.strip()
IsBlank(text) == SkipSpace(text, 1) > Len(text)

\* JSON values
JNum(n) == [k |-> "num", n |-> n, s |-> "", m |-> <<>>, a |-> <<>>]
JDec(h) == [k |-> "dec", n |-> h, s |-> "", m |-> <<>>, a |-> <<>>]
JStr(s) == [k |-> "str", n |-> 0, s |-> s, m |-> <<>>, a |-> <<>>]
JLit(s) == [k |-> "lit", n |-> 0, s |-> s, m |-> <<>>, a |-> <<>>]
JObj(m) == [k |-> "obj", n |-> 0, s |-> "", m |-> m, a |-> <<>>]
JArr(a) == [k |-> "arr", n |-> 0, s |-> "", m |-> <<>>, a |-> a]

ParseFail == [ok |-> FALSE, v |-> JLit("null"), next |-> 0]
Parsed(v, next) == [ok |-> TRUE, v |-> v, next |-> next]

RECURSIVE ParseValue(_, _), ParseMembers(_, _, _), ParseElements(_, _, _)

\* one value starting at or after lexeme i
ParseValue(text, i0) ==
    LET i == SkipSpace(text, i0)
        tok == At(text, i)
    IN  CASE tok.t = "num" -> Parsed(JNum(tok.n), i + 1)
          [] tok.t = "dec" -> Parsed(JDec(tok.n), i + 1)
          [] tok.t = "str" -> Parsed(JStr(tok.s), i + 1)
          [] tok.t = "word" /\ tok.s \in {"true", "false", "null"} ->
                Parsed(JLit(tok.s), i + 1)
          [] tok = P("{") ->
                IF At(text, SkipSpace(text, i + 1)) = P("}")
                THEN Parsed(JObj(<<>>), SkipSpace(text, i + 1) + 1)
                ELSE ParseMembers(text, i + 1, <<>>)
          [] tok = P("[") ->
                IF At(text, SkipSpace(text, i + 1)) = P("]")
                THEN Parsed(JArr(<<>>), SkipSpace(text, i + 1) + 1)
                ELSE ParseElements(text, i + 1, <<>>)
          [] OTHER -> ParseFail

\* "key": value pairs up to the closing brace; a repeated key keeps the last value
ParseMembers(text, i0, m) ==
    LET i == SkipSpace(text, i0)
        c == SkipSpace(text, i + 1)
    IN  IF At(text, i).t # "str" \/ At(text, c) # P(":") THEN ParseFail
        ELSE LET r == ParseValue(text, c + 1)
             IN  IF ~r.ok THEN ParseFail
                 ELSE LET j == SkipSpace(text, r.next)
                          m2 == Put(m, At(text, i).s, r.v)
                      IN  CASE At(text, j) = P(",") -> ParseMembers(text, j + 1, m2)
                            [] At(text, j) = P("}") -> Parsed(JObj(m2), j + 1)
                            [] OTHER -> ParseFail

\* values up to the closing bracket
ParseElements(text, i0, a) ==
    LET r == ParseValue(text, i0)
    IN  IF ~r.ok THEN ParseFail
        ELSE LET j == SkipSpace(text, r.next)
                 a2 == Append(a, r.v)
             IN  CASE At(text, j) = P(",") -> ParseElements(text, j + 1, a2)
                   [] At(text, j) = P("]") -> Parsed(JArr(a2), j + 1)
                   [] OTHER -> ParseFail

\* json.loads(text): ok = FALSE is json.JSONDecodeError (text after the value too)
json_loads(text) ==
    LET r == ParseValue(text, 1)
    IN  IF r.ok /\ SkipSpace(text, r.next) > Len(text) THEN r ELSE ParseFail

----------------------------------------------------------------------------
(* ClaudeCodeAnalyze: the structured path (lines 386-409).  Costs are in    *)
(* hundredths; files_edited is the set the list is made from.               *)

Summary(text, files) == [text |-> text, n |-> Cardinality(files), files |-> files]

\* f"Edited {len(edited_files)} file(s): {', '.join(edited_files)}" or "No files were edited"
EditSummary(files) ==
    IF files # {} THEN Summary("Edited N file(s): ", files)
    ELSE Summary("No files were edited", {})

\* lines 372-379
InitialPorts(error_text) ==
    [input_tokens |-> 0, output_tokens |-> 0, total_cost |-> 0, files_edited |-> {},
     edit_summary |-> Summary("", {}),
     has_errors |-> error_text # <<>>, success |-> ~(error_text # <<>>)]

\* `key in data` raises TypeError unless data is a dict, a list or a string
InRaises(data) == data.k \in {"num", "dec", "lit"}
In(key, data) ==
    CASE data.k = "obj" -> key \in DOMAIN data.m
      [] data.k = "arr" -> \E i \in 1..Len(data.a) : data.a[i].k = "str" /\ data.a[i].s = key
      [] data.k = "str" -> data.s = key
      [] OTHER -> FALSE

\* faulty variant: the field is never read
GetDefault(obj, key, default) == default

\* x.get(key, default) on a dict, read as a number of the port's unit
Get(obj, key, default) ==
    IF key \in DOMAIN obj.m THEN obj.m[key].n ELSE default

\* the value a truthy file_path adds to the set; "" when nothing is added
FilePathOf(tool_call) ==
    IF tool_call.m["name"].k = "str"
       /\ tool_call.m["name"].s \in {"Edit", "Write", "MultiEdit"}
       /\ "parameters" \in DOMAIN tool_call.m
       /\ "file_path" \in DOMAIN tool_call.m["parameters"].m
    THEN tool_call.m["parameters"].m["file_path"].s
    ELSE ""

\* the loop over data['tool_calls'] raises: an entry that is no dict, or whose
\* parameters are no dict (a missing name is None: no edit, nothing raised)
ToolCallRaises(tc) ==
    \/ tc.k # "obj"
    \/ /\ "name" \in DOMAIN tc.m
       /\ tc.m["name"].k = "str"
       /\ tc.m["name"].s \in {"Edit", "Write", "MultiEdit"}
       /\ "parameters" \in DOMAIN tc.m
       /\ tc.m["parameters"].k # "obj"

ToolCallFile(tc) == IF "name" \in DOMAIN tc.m THEN FilePathOf(tc) ELSE ""

\* the tool calls of the document as a sequence (a dict iterates its keys, a string
\* its characters: entries that are no dict)
ToolCalls(data) ==
    IF ~In("tool_calls", data) THEN <<>>
    ELSE LET tcs == data.m["tool_calls"]
         IN  CASE tcs.k = "arr" -> tcs.a
               [] tcs.k = "obj" -> IF DOMAIN tcs.m = {} THEN <<>> ELSE <<JStr("key")>>
               [] tcs.k = "str" -> IF tcs.s = "" THEN <<>> ELSE <<JStr("c")>>
               [] OTHER -> <<JNum(0)>>

\* the body of the try block after json.loads returned data: [raised, ports]
StructuredPath(data, ports0) ==
    IF InRaises(data) \/ (data.k = "str" /\ In("usage", data))
    THEN [raised |-> TRUE, ports |-> ports0]
    ELSE LET hasUsage == In("usage", data)
             usageBad == hasUsage /\ (data.k # "obj" \/ data.m["usage"].k # "obj")
             p1 == IF hasUsage /\ ~usageBad
                   THEN [ports0 EXCEPT
                           !.input_tokens = Get(data.m["usage"], "input_tokens", 0),
                           !.output_tokens = Get(data.m["usage"], "output_tokens", 0),
                           !.total_cost = Get(data.m["usage"], "total_cost", 0)]
                   ELSE ports0
             tcs == IF data.k = "obj" THEN ToolCalls(data) ELSE <<>>
             tcBad == \/ data.k \in {"str", "arr"} /\ In("tool_calls", data)
                      \/ \E i \in 1..Len(tcs) : ToolCallRaises(tcs[i])
             files == {ToolCallFile(tcs[i]) : i \in 1..Len(tcs)} \ {""}
         IN  IF usageBad \/ tcBad
             THEN [raised |-> TRUE, ports |-> p1]
             ELSE [raised |-> FALSE,
                   ports |-> [p1 EXCEPT !.files_edited = files,
                                        !.edit_summary = EditSummary(files)]]

----------------------------------------------------------------------------
(* ClaudeCodeAnalyze: the regex fallback (lines 411-451), re.IGNORECASE.    *)

\* str.lower() on the words the patterns name
Lower(s) ==
    CASE s \in {"Input", "INPUT"} -> "input"
      [] s \in {"Output", "OUTPUT"} -> "output"
      [] s \in {"Tokens", "TOKENS"} -> "tokens"
      [] s = "Total" -> "total"
      [] s = "Cost" -> "cost"
      [] s = "Edited" -> "edited"
      [] s = "Modified" -> "modified"
      [] s = "Writing" -> "writing"
      [] s = "To" -> "to"
      [] s = "Created" -> "created"
      [] OTHER -> s

IsWord(tok, w) == tok.t = "word" /\ Lower(tok.s) = w
IsDigits(tok) == tok.t \in {"num", "dec"}

\* the five token patterns, in the order of the list; words are the words of the
\* pattern's text, which decide the port it feeds
TokenPatterns ==
    << [shape |-> "label", word |-> "input", words |-> {"input", "tokens"}],
       [shape |-> "label", word |-> "output", words |-> {"output", "tokens"}],
       [shape |-> "cost", word |-> "cost", words |-> {"total", "cost"}],
       [shape |-> "count", word |-> "input", words |-> {"input", "tokens"}],
       [shape |-> "count", word |-> "output", words |-> {"output", "tokens"}] >>

\* r'<Label> tokens:\s*(\d+)' matches at lexeme i
LabelAt(text, i, word) ==
    /\ IsWord(At(text, i), word)
    /\ At(text, i + 1) = Sp
    /\ IsWord(At(text, i + 2), "tokens")
    /\ At(text, i + 3) = P(":")
    /\ IsDigits(At(text, SkipSpace(text, i + 4)))

\* int of its group: the digits before the point of a decimal
LabelGroup(text, i) ==
    LET tok == At(text, SkipSpace(text, i + 4))
    IN  IF tok.t = "num" THEN tok.n ELSE tok.n \div 100

\* r'(\d+)\s*<label>\s*tokens' matches at lexeme i: the white space may be a newline
CountAt(text, i, word) ==
    /\ IsDigits(At(text, i))
    /\ IsWord(At(text, SkipSpace(text, i + 1)), word)
    /\ IsWord(At(text, SkipSpace(text, SkipSpace(text, i + 1) + 1)), "tokens")

\* int of its group: the digits after the point of a decimal
CountGroup(text, i) ==
    IF At(text, i).t = "num" THEN At(text, i).n ELSE At(text, i).n % 100

\* r'Total cost:\s*\$?([\d.]+)' matches at lexeme i
CostStart(text, i) ==
    LET j == SkipSpace(text, i + 4)
    IN  IF At(text, j) = P("$") THEN j + 1 ELSE j

CostAt(text, i) ==
    /\ IsWord(At(text, i), "total")
    /\ At(text, i + 1) = Sp
    /\ IsWord(At(text, i + 2), "cost")
    /\ At(text, i + 3) = P(":")
    /\ IsDigits(At(text, CostStart(text, i)))

\* float of its group, in hundredths
CostGroup(text, i) ==
    LET tok == At(text, CostStart(text, i))
    IN  IF tok.t = "dec" THEN tok.n ELSE tok.n * 100

MatchAt(text, i, pat) ==
    CASE pat.shape = "label" -> LabelAt(text, i, pat.word)
      [] pat.shape = "count" -> CountAt(text, i, pat.word)
      [] OTHER -> CostAt(text, i)

GroupAt(text, i, pat) ==
    CASE pat.shape = "label" -> LabelGroup(text, i)
      [] pat.shape = "count" -> CountGroup(text, i)
      [] OTHER -> CostGroup(text, i)

\* re.findall(pattern, text)[0]: the leftmost match at or after i; 0 when none
RECURSIVE FirstMatch(_, _, _)
FirstMatch(text, i, pat) ==
    IF i > Len(text) THEN 0
    ELSE IF MatchAt(text, i, pat) THEN i
    ELSE FirstMatch(text, i + 1, pat)

\* the if/elif on the pattern's own text
PortOf(pat) ==
    IF "input" \in pat.words THEN "input_tokens"
    ELSE IF "output" \in pat.words THEN "output_tokens"
    ELSE IF "cost" \in pat.words THEN "total_cost"
    ELSE "none"

\* the loop over token_patterns: a later pattern that matches overwrites the port
RECURSIVE ApplyPatterns(_, _, _)
ApplyPatterns(pats, text, ports) ==
    IF pats = <<>> THEN ports
    ELSE LET pat == Head(pats)
             i == FirstMatch(text, 1, pat)
             p == IF i = 0 \/ PortOf(pat) = "none" THEN ports
                  ELSE [ports EXCEPT ![PortOf(pat)] = GroupAt(text, i, pat)]
         IN  ApplyPatterns(Tail(pats), text, p)

\* the four file patterns: the words of each label, a colon after them
FilePatterns == << <<"edited">>, <<"modified">>, <<"writing", "to">>, <<"created">> >>

\* the label matches at lexeme i: the index after its colon, else 0
LabelEnd(text, i, label) ==
    IF Len(label) = 1
    THEN IF IsWord(At(text, i), label[1]) /\ At(text, i + 1) = P(":") THEN i + 2 ELSE 0
    ELSE IF /\ IsWord(At(text, i), label[1])
            /\ At(text, i + 1) = Sp
            /\ IsWord(At(text, i + 2), label[2])
            /\ At(text, i + 3) = P(":")
         THEN i + 4 ELSE 0

\* where ([^\n]+) starts after \s* from lexeme e: past all the white space, or, when
\* only white space is left, at the last of it that is no newline; 0 when no match
GroupStart(text, e) ==
    LET j == SkipSpace(text, e)
        back == {k \in e..Len(text) : text[k] # Nl}
    IN  IF j <= Len(text) THEN j
        ELSE IF back = {} THEN 0
        ELSE CHOOSE k \in back : \A x \in back : x <= k

\* the last lexeme of the line that lexeme i is on
RECURSIVE LineEnd(_, _)
LineEnd(text, i) ==
    IF i >= Len(text) \/ At(text, i + 1) = Nl THEN i ELSE LineEnd(text, i + 1)

\* re.findall(pattern, text) from lexeme i on: the set of the groups
RECURSIVE FindAllFiles(_, _, _)
FindAllFiles(text, i, label) ==
    IF i > Len(text) THEN {}
    ELSE LET e == LabelEnd(text, i, label)
             g == IF e = 0 THEN 0 ELSE GroupStart(text, e)
         IN  IF g = 0 THEN FindAllFiles(text, i + 1, label)
             ELSE {SubSeq(text, g, LineEnd(text, g))}
                  \cup FindAllFiles(text, LineEnd(text, g) + 1, label)

\* faulty variant: only the first of the four patterns is searched for
FallbackFilesEditedOnly(text) == FindAllFiles(text, 1, FilePatterns[1])

\* edited_files after the loop over file_patterns
FallbackFiles(text) ==
    UNION {FindAllFiles(text, 1, FilePatterns[i]) : i \in 1..Len(FilePatterns)}

\* the except json.JSONDecodeError block
FallbackPath(text, ports0) ==
    LET p == ApplyPatterns(TokenPatterns, text, ports0)
        files == FallbackFiles(text)
    IN  [p EXCEPT !.files_edited = files, !.edit_summary = EditSummary(files)]

\* lines 369-451, after ensure_claude_code_available returned: [raised, ports]
AnalyzePorts(output_text, error_text) ==
    LET ports0 == InitialPorts(error_text)
    IN  IF IsBlank(output_text) THEN [raised |-> FALSE, ports |-> ports0]
        ELSE LET r == json_loads(output_text)
             IN  IF r.ok THEN StructuredPath(r.v, ports0)
                 ELSE [raised |-> FALSE, ports |-> FallbackPath(output_text, ports0)]

----------------------------------------------------------------------------
(* ClaudeCodeConfig, ClaudeCodeUpdate, ClaudeCodeDoctor *)

ConfigTimeout == 30
UpdateTimeout == 60
DoctorTimeout == 30

ConfigArgv(c, a) ==
    <<c["claude_cmd"], "config">>
    \o (IF a.action # "" THEN <<a.action>> ELSE <<>>)
    \o (IF a.global_config THEN <<"-g">> ELSE <<>>)
    \o (IF a.key # "" THEN <<a.key>> ELSE <<>>)
    \o (IF a.action = "set" /\ a.value # "" THEN <<a.value>> ELSE <<>>)

UpdateArgv(c) == <<c["claude_cmd"], "update">>
DoctorArgv(c) == <<c["claude_cmd"], "doctor">>

\* success and result of the three, by how the child ended
ResultPorts(run) ==
    CASE run.kind = "exit" -> [success |-> run.returncode = 0, result |-> StdoutOrStderr(run)]
      [] run.kind = "timeout" -> [success |-> FALSE, result |-> ErrorPrefix(<<W("timed out")>>)]
      [] OTHER -> [success |-> FALSE, result |-> ErrorPrefix(SpawnErrorMessage)]

\* 'available' in output.lower() or 'update' in output.lower(), on whole words
UpdateAvailable(run) ==
    /\ run.kind = "exit"
    /\ \E i \in 1..Len(StdoutOrStderr(run)) :
          StdoutOrStderr(run)[i].t = "word"
          /\ Lower(StdoutOrStderr(run)[i].s) \in {"available", "update"}

----------------------------------------------------------------------------
(* The component calls.  Each is one action: the whole of execute(ctx). *)

NoRun == [kind |-> "none", returncode |-> 0, stdout |-> <<>>, stderr |-> <<>>, elapsed |-> 0]
NoPorts == <<>>

Called(op, a, run, raised, ports, procs) ==
    [op |-> op, raised |-> raised, had_cmd |-> "claude_cmd" \in DOMAIN ctx,
     ensured |-> FALSE, args |-> a, run |-> run, ports |-> ports, procs |-> procs]

\* what a call that resolved with r leaves behind
Leaves(r, o) ==
    /\ ctx' = r.ctx
    /\ claude_bin_ok' = r.bin_ok
    /\ resolutions' = IF r.ran THEN Logged(r) ELSE resolutions
    /\ out' = [o EXCEPT !.ensured = r.ran]

ClaudeCodeInit(a) ==
    LET env1 == IF a.api_key # ""
                THEN [environ EXCEPT !["ANTHROPIC_API_KEY"] = a.api_key]
                ELSE environ
        cfg == [model |-> a.model,
                working_dir |-> OrStr(a.working_dir, Cwd),
                timeout |-> OrInt(a.timeout, DefaultTimeout),
                output_format |-> "json",
                verbose |-> a.verbose,
                debug |-> a.debug]
        r == EnsureAlways(env1, Put(ctx, "claude_config", cfg))
    IN  /\ environ' = env1
        /\ Leaves(r, Called("Init", a, NoRun, FALSE,
                            [success |-> ~r.raised,
                             config_summary |-> IF r.raised THEN "Initialization failed: "
                                                ELSE "Claude Code Configuration:"],
                            r.procs))
        /\ UNCHANGED host

\* no call of ensure_claude_code_available: the context and the files stay
Unresolved(c) ==
    [raised |-> FALSE, ctx |-> c, procs |-> <<>>, bin_ok |-> claude_bin_ok,
     cmd |-> "", installs |-> 0, ran |-> FALSE]

\* the model is read with no default by these two: no configuration raises
NeedsConfig(op) == op \in {"Execute", "Chat"}

\* the subprocess.run call of each component that runs claude
ProcOf(op, c, a) ==
    CASE op = "Execute" -> ExecuteProc(c, a)
      [] op = "Chat" -> ChatProc(c, a)
      [] op = "Config" -> Proc(ConfigArgv(c, a), get_claude_config(c, "working_dir", Cwd),
                               get_claude_config(c, "timeout", ConfigTimeout))
      [] op = "Update" -> Proc(UpdateArgv(c), get_claude_config(c, "working_dir", Cwd),
                               get_claude_config(c, "timeout", UpdateTimeout))
      [] OTHER -> Proc(DoctorArgv(c), get_claude_config(c, "working_dir", Cwd),
                       get_claude_config(c, "timeout", DoctorTimeout))

\* the ports each of them assigns
PortsOf(op, c, run) ==
    CASE op = "Execute" ->
            ExecutePorts(run, get_claude_config(c, "timeout", DefaultTimeout), run.elapsed)
      [] op = "Chat" -> ChatPorts(run)
      [] op = "Update" -> [update_available |-> UpdateAvailable(run)] @@ ResultPorts(run)
      [] OTHER -> ResultPorts(run)

\* A component that runs claude: it reads its configuration, resolves when the
\* context holds no path, runs its subprocess and assigns its ports.
\* [r, o]: the resolution and the call record.
RunsClaude(op, a, run) ==
    IF NeedsConfig(op) /\ ConfigRaises(ctx)
    THEN [r |-> Unresolved(ctx), o |-> Called(op, a, NoRun, TRUE, NoPorts, <<>>)]
    ELSE LET r == EnsureIfAbsent(environ, ctx)
         IN  IF r.raised
             THEN [r |-> r, o |-> Called(op, a, NoRun, TRUE, NoPorts, r.procs)]
             ELSE [r |-> r, o |-> Called(op, a, run, FALSE, PortsOf(op, r.ctx, run),
                                         r.procs \o <<ProcOf(op, r.ctx, a)>>)]

ClaudeCodeExecute(a, run) ==
    /\ Leaves(RunsClaude("Execute", a, run).r, RunsClaude("Execute", a, run).o)
    /\ UNCHANGED <<environ, host>>

ClaudeCodeChat(a, run) ==
    /\ Leaves(RunsClaude("Chat", a, run).r, RunsClaude("Chat", a, run).o)
    /\ UNCHANGED <<environ, host>>

ClaudeCodeConfig(a, run) ==
    /\ Leaves(RunsClaude("Config", a, run).r, RunsClaude("Config", a, run).o)
    /\ UNCHANGED <<environ, host>>

ClaudeCodeUpdate(a, run) ==
    /\ Leaves(RunsClaude("Update", a, run).r, RunsClaude("Update", a, run).o)
    /\ UNCHANGED <<environ, host>>

ClaudeCodeDoctor(run) ==
    /\ Leaves(RunsClaude("Doctor", <<>>, run).r, RunsClaude("Doctor", <<>>, run).o)
    /\ UNCHANGED <<environ, host>>

\* ensure_claude_code_available is called whatever the context holds
ClaudeCodeAnalyze(a) ==
    LET r == EnsureAlways(environ, ctx)
        an == AnalyzePorts(a.output, a.error)
    IN  /\ IF r.raised
           THEN Leaves(r, Called("Analyze", a, NoRun, TRUE, NoPorts, r.procs))
           ELSE Leaves(r, Called("Analyze", a, NoRun, an.raised, an.ports, r.procs))
        /\ UNCHANGED <<environ, host>>

----------------------------------------------------------------------------
(* Inputs. *)

\* "Input tokens: a\nOutput tokens: b\nTotal cost: $c", c in hundredths
UsageText(a, b, c) ==
    <<W("Input"), Sp, W("tokens"), P(":"), Sp, N(a), Nl,
      W("Output"), Sp, W("tokens"), P(":"), Sp, N(b), Nl,
      W("Total"), Sp, W("cost"), P(":"), Sp, P("$"), D(c)>>

\* {"usage": {"input_tokens": 42, "output_tokens": 5}, "total_cost_usd": 0.02}
UsageJson ==
    <<P("{"), S("usage"), P(":"), Sp,
      P("{"), S("input_tokens"), P(":"), Sp, N(42), P(","), Sp,
              S("output_tokens"), P(":"), Sp, N(5), P("}"), P(","), Sp,
      S("total_cost_usd"), P(":"), Sp, D(2), P("}")>>

InitArgs(models, dirs, timeouts, keys, flags) ==
    [model : models, working_dir : dirs, timeout : timeouts, api_key : keys,
     verbose : flags, debug : flags]

ExecuteArgs(prompts, modes, flags, sessions, options) ==
    [prompt : prompts, print_mode : modes, continue_conversation : flags,
     resume_session : sessions, additional_options : options]

ChatArgs(prompts) == [prompt : prompts]

ConfigArgs == [action : {"get", "set"}, key : {"theme"}, value : {"dark"},
               global_config : {FALSE}]

UpdateArgs == [check_only : {FALSE}]

AnalyzeArgs(outputs, errors) == [output : outputs, error : errors]

\* the ways a child ends
AllRuns == {Exit(0, UsageJson, <<>>), Exit(1, <<>>, <<W("boom")>>), TimedOut, SpawnFails}
OneRun == {Exit(0, UsageJson, <<>>)}

\* the texts given to the analyzer: stdout and stderr
Outputs == {<<>>, UsageText(7, 3, 2), UsageJson}
Errors == {<<>>, TimeoutMessage(60), TimeoutMessage(DefaultTimeout)}

\* "Edited: a.py\nCreated: b.py"
EditsText ==
    <<W("Edited"), P(":"), Sp, W("a.py"), Nl, W("Created"), P(":"), Sp, W("b.py")>>

\* "Edited: a.py\nModified: a.py\nWriting to: c.py"
RepeatedEditsText ==
    <<W("Edited"), P(":"), Sp, W("a.py"), Nl,
      W("Modified"), P(":"), Sp, W("a.py"), Nl,
      W("Writing"), Sp, W("to"), P(":"), Sp, W("c.py")>>

\* "Edited:\nCreated: b.py": a label with nothing after it on its line
LabelAloneText == <<W("Edited"), P(":"), Nl, W("Created"), P(":"), Sp, W("b.py")>>

\* "done": a text no pattern matches
PlainText == <<W("done")>>

\* " \n": white space only
BlankText == <<Sp, Nl>>

\* {"usage": {"input_tokens": 42}}
InputOnlyJson ==
    <<P("{"), S("usage"), P(":"), Sp,
      P("{"), S("input_tokens"), P(":"), Sp, N(42), P("}"), P("}")>>

\* {"result": "ok"}
ResultJson == <<P("{"), S("result"), P(":"), Sp, S("ok"), P("}")>>

\* {"usage": {"total_cost": 0.05}, "total_cost_usd": 0.02}
UsageCostJson ==
    <<P("{"), S("usage"), P(":"), Sp,
      P("{"), S("total_cost"), P(":"), Sp, D(5), P("}"), P(","), Sp,
      S("total_cost_usd"), P(":"), Sp, D(2), P("}")>>

\* {"is_error": true, "result": "ok"}
ErrorJson ==
    <<P("{"), S("is_error"), P(":"), Sp, W("true"), P(","), Sp,
      S("result"), P(":"), Sp, S("ok"), P("}")>>

\* {"tool_calls": [{"name": "Edit", "parameters": {"file_path": "a.py"}}]}
ToolCallsJson ==
    <<P("{"), S("tool_calls"), P(":"), Sp, P("["),
      P("{"), S("name"), P(":"), Sp, S("Edit"), P(","), Sp,
              S("parameters"), P(":"), Sp,
              P("{"), S("file_path"), P(":"), Sp, S("a.py"), P("}"), P("}"),
      P("]"), P("}")>>

\* 42: JSON that is no object
NumberJson == <<N(42)>>

\* {"usage": 7}: a usage field that is no record
UsageNumberJson == <<P("{"), S("usage"), P(":"), Sp, N(7), P("}")>>

\* {"tool_calls": [7]}: a tool_calls entry that is no record
ToolCallNumberJson ==
    <<P("{"), S("tool_calls"), P(":"), Sp, P("["), N(7), P("]"), P("}")>>

\* the texts of every shape the analyzer tells apart
AnalyzerOutputs ==
    {<<>>, BlankText, PlainText, UsageText(7, 3, 2), EditsText, RepeatedEditsText,
     LabelAloneText,
     UsageJson, InputOnlyJson, ResultJson, UsageCostJson, ErrorJson, ToolCallsJson,
     NumberJson, UsageNumberJson, ToolCallNumberJson}
AnalyzerErrors == {<<>>, <<W("boom")>>}

----------------------------------------------------------------------------
(* The specifications. *)

NoCall == [op |-> "none", raised |-> FALSE, had_cmd |-> FALSE, ensured |-> FALSE, args |-> <<>>,
           run |-> NoRun, ports |-> NoPorts, procs |-> <<>>]

\* The hosts: npm is only ever run when the private binary is missing, and the
\* private binary is only ever probed when it exists or npm installs it; the
\* answers that are never asked for are left at one value.
Hosts ==
    [global_claude : {"absent"} \cup ProbeOutcomes,
     local_probe : ProbeOutcomes,
     npm : NpmOutcomes]

Relevant(bin_ok, h) ==
    /\ bin_ok => h.npm = "installs"
    /\ (~bin_ok /\ h.npm # "installs") => h.local_probe = "ok"

\* a fresh context in any environment
Init ==
    /\ environ \in [{"ANTHROPIC_API_KEY"} -> {"", "sk-ant"}]
    /\ claude_bin_ok \in BOOLEAN
    /\ host \in Hosts
    /\ Relevant(claude_bin_ok, host)
    /\ ctx = <<>>
    /\ out = NoCall
    /\ resolutions = <<>>

\* a fresh context on a host where claude can be resolved and works
InitBuild ==
    /\ environ = [ANTHROPIC_API_KEY |-> "sk-ant"]
    /\ claude_bin_ok \in BOOLEAN
    /\ host = [global_claude |-> "ok", local_probe |-> "ok", npm |-> "installs"]
    /\ ctx = <<>>
    /\ out = NoCall
    /\ resolutions = <<>>

\* one component call, its inputs drawn from the given sets
Step(inits, executes, chats, analyzes, runs) ==
    \/ \E a \in inits : ClaudeCodeInit(a)
    \/ \E a \in executes, run \in runs : ClaudeCodeExecute(a, run)
    \/ \E a \in chats, run \in runs : ClaudeCodeChat(a, run)
    \/ \E a \in analyzes : ClaudeCodeAnalyze(a)
    \/ \E a \in ConfigArgs, run \in runs : ClaudeCodeConfig(a, run)
    \/ \E a \in UpdateArgs, run \in runs : ClaudeCodeUpdate(a, run)
    \/ \E run \in runs : ClaudeCodeDoctor(run)

\* every environment, every way a child ends; one shape of call per component
Next ==
    Step(InitArgs({"", "sonnet"}, {"/proj"}, {60}, {"", "sk-ant"}, {FALSE}),
         ExecuteArgs({"hi"}, {"None"}, {FALSE}, {""}, {<<>>}),
         ChatArgs({"hi"}),
         AnalyzeArgs(Outputs, Errors),
         AllRuns)

Spec == Init /\ [][Next]_vars

\* a working host, every combination of configuration and call inputs
NextBuild ==
    Step(InitArgs({"", "sonnet"}, {"", "/proj"}, {0, 60}, {""}, BOOLEAN),
         ExecuteArgs({"", "hi"}, {"None", "True", "False"}, BOOLEAN, {"", "s1"},
                     {<<>>, <<"--verbose", " ", "--debug">>}),
         ChatArgs({"", "hi"}),
         AnalyzeArgs({UsageJson}, {<<>>}),
         OneRun)

SpecBuild == InitBuild /\ [][NextBuild]_vars

\* a working host, every shape of stdout given to the analyzer
NextAnalyze ==
    Step(InitArgs({"sonnet"}, {"/proj"}, {60}, {""}, {FALSE}),
         ExecuteArgs({"hi"}, {"None"}, {FALSE}, {""}, {<<>>}),
         ChatArgs({"hi"}),
         AnalyzeArgs(AnalyzerOutputs, AnalyzerErrors),
         OneRun)

SpecAnalyze == InitBuild /\ [][NextAnalyze]_vars

----------------------------------------------------------------------------
(* Properties. *)

Last(seq) == seq[Len(seq)]
Elems(seq) == {seq[i] : i \in 1..Len(seq)}
HasPair(seq, x, y) == \E i \in 1..(Len(seq) - 1) : seq[i] = x /\ seq[i + 1] = y

\* the call ran its child: the last subprocess of the call
RanChild(o, op) == o.op = op /\ ~o.raised
Child(o) == Last(o.procs)

\* a subprocess of the resolution: a --version probe or the npm install
IsResolutionProc(p) == Last(p.argv) = "--version" \/ p.argv[1] = "npm"

\* the call failed: it raised, or ClaudeCodeInit reported success = False
Failed(o) == o.raised \/ (o.op = "Init" /\ ~o.ports.success)

C2_ResolveIdempotent ==
    \A i \in 1..Len(resolutions) : \A j \in (i + 1)..Len(resolutions) :
        resolutions[i].ok =>
            /\ resolutions[j].ok
            /\ resolutions[j].cmd = resolutions[i].cmd
            /\ resolutions[i].installs + resolutions[j].installs <= 1

C2_Witness ==
    /\ Len(resolutions) >= 2
    /\ resolutions[1].ok
    /\ resolutions[1].installs = 1
    /\ resolutions[2].cmd = LocalBin

\* C3: a component call made on a context that already holds claude_cmd does not
\* call ensure_claude_code_available: it runs no credential check, no search, no
\* install and no --version probe.
C3_ResolvedAtMostOnce ==
    out.had_cmd =>
        /\ ~out.ensured
        /\ \A i \in 1..Len(out.procs) : ~IsResolutionProc(out.procs[i])

\* C4: the argument vector of a ClaudeCodeExecute call with a resume session id
\* holds --resume followed by the id and no --continue, whatever
\* continue_conversation is; no argument vector holds both flags.
C4_ResumeExcludesContinue ==
    RanChild(out, "Execute") =>
        LET argv == Child(out).argv
        IN  /\ out.args.resume_session # "" =>
                 /\ HasPair(argv, "--resume", out.args.resume_session)
                 /\ "--continue" \notin Elems(argv)
            /\ ~("--continue" \in Elems(argv) /\ "--resume" \in Elems(argv))

\* C5: every argument vector of ClaudeCodeExecute and ClaudeCodeChat holds
\* --permission-mode bypassPermissions and --add-dir <the configured working
\* directory>, and the child runs in that directory.
C5_BypassAndAllowedDir ==
    (RanChild(out, "Execute") \/ RanChild(out, "Chat")) =>
        LET argv == Child(out).argv
            dir == ctx["claude_config"].working_dir
        IN  /\ HasPair(argv, "--permission-mode", "bypassPermissions")
            /\ HasPair(argv, "--add-dir", dir)
            /\ Child(out).cwd = dir

C5_Witness ==
    /\ RanChild(out, "Execute")
    /\ ctx["claude_config"].working_dir = "/proj"
    /\ ctx["claude_config"].debug
    /\ out.args.additional_options # <<>>
    /\ out.args.resume_session # ""

\* C6, as stated: for a prompt that is not empty, in print mode the prompt is the
\* last element of the argument vector; with print mode off it is not in the
\* argument vector and is given to the child as its standard input.
C6_PromptLastOrStdin ==
    (RanChild(out, "Execute") /\ out.args.prompt # "") =>
        IF out.args.print_mode # "False"
        THEN Last(Child(out).argv) = out.args.prompt
        ELSE /\ out.args.prompt \notin Elems(Child(out).argv)
             /\ Child(out).input = out.args.prompt

\* C6, amended: a prompt that is not empty is the last element of the argument
\* vector in print mode and with print mode off alike, after all flags, session
\* flags and additional options; the child is given no standard input.
C6_PromptLastInEveryMode ==
    (RanChild(out, "Execute") /\ out.args.prompt # "") =>
        /\ Last(Child(out).argv) = out.args.prompt
        /\ Child(out).input = ""

C6_Witness ==
    /\ RanChild(out, "Execute")
    /\ out.args.prompt = "hi"
    /\ out.args.print_mode = "False"
    /\ out.args.additional_options # <<>>
    /\ out.args.continue_conversation

\* C7, as stated: an empty prompt yields an argument vector whose last element is
\* the empty string, for ClaudeCodeExecute and ClaudeCodeChat alike.
C7_EmptyPromptPassedThrough ==
    ((RanChild(out, "Execute") \/ RanChild(out, "Chat")) /\ out.args.prompt = "") =>
        Last(Child(out).argv) = ""

\* C7, amended: ClaudeCodeChat passes an empty prompt through (the last element
\* of its argument vector is the empty string); ClaudeCodeExecute leaves an empty
\* prompt out: its argument vector holds no empty string and ends with the last
\* flag or option. Neither rejects the call: the child is run.
C7_EmptyPromptChatOnly ==
    /\ (RanChild(out, "Chat") /\ out.args.prompt = "") =>
          Last(Child(out).argv) = ""
    /\ (RanChild(out, "Execute") /\ out.args.prompt = "") =>
          /\ "" \notin Elems(Child(out).argv)
          /\ Last(Child(out).argv) \in
                {"json", "--continue", out.args.resume_session, "--debug", "--verbose",
                 ctx["claude_config"].model, ctx["claude_config"].working_dir}
    /\ (out.op \in {"Execute", "Chat"} /\ out.args.prompt = "" /\ out.had_cmd
           /\ HasConfig(ctx)) => RanChild(out, out.op)

C7_Witness ==
    /\ RanChild(out, "Chat")
    /\ out.args.prompt = ""
    /\ out.had_cmd

\* a run of claude itself, not a subprocess of the resolution
IsClaudeRun(p) == p.argv[1] \in {LocalBin, GlobalBin} /\ ~IsResolutionProc(p)

\* C8: when the child of ClaudeCodeExecute exceeds the timeout or cannot be
\* spawned, the call does not raise: return_code is -1, the error text is not
\* empty, execution_time is assigned, and claude was run once (with the path
\* already in the context, the call ran that one subprocess and no other). A child
\* that exits is not raised either: return_code is its exit code.
C8_FailureIsAResult ==
    /\ (out.op = "Execute" /\ out.run.kind \in {"timeout", "oserror"}) =>
          /\ ~out.raised
          /\ out.ports.return_code = -1
          /\ out.ports.error # <<>>
          /\ "execution_time" \in DOMAIN out.ports
          /\ Cardinality({i \in 1..Len(out.procs) : IsClaudeRun(out.procs[i])}) = 1
          /\ out.had_cmd => Len(out.procs) = 1
    /\ (out.op = "Execute" /\ out.run.kind = "exit") =>
          /\ ~out.raised
          /\ out.ports.return_code = out.run.returncode
          /\ Cardinality({i \in 1..Len(out.procs) : IsClaudeRun(out.procs[i])}) = 1

C8_Witness ==
    /\ out.op = "Execute"
    /\ out.run.kind = "timeout"
    /\ out.had_cmd
    /\ out.ports.error = TimeoutMessage(60)

\* C9: the analyzer given what ClaudeCodeExecute produces on a timeout (empty
\* output, the timeout message as error) yields has_errors = true, whatever the
\* context and the environment.
C9_TimedOutHasErrors ==
    (/\ out.op = "Analyze"
     /\ out.args.output = <<>>
     /\ out.args.error \in {TimeoutMessage(60), TimeoutMessage(DefaultTimeout)}) =>
        /\ ~out.raised
        /\ out.ports.has_errors

\* C10: for the text "Input tokens: a / Output tokens: b / Total cost: $c" the
\* analyzer yields input_tokens = a, output_tokens = b and total cost = c.
C10_FallbackEquivalence ==
    \A a \in {7}, b \in {3}, c \in {2} :
        (out.op = "Analyze" /\ ~out.raised /\ out.args.output = UsageText(a, b, c)) =>
            /\ out.ports.input_tokens = a
            /\ out.ports.output_tokens = b
            /\ out.ports.total_cost = c


----------------------------------------------------------------------------
(* Properties of the analysis. *)

\* the analysis ran: the resolution before it succeeded
Analyzed(o) == o.op = "Analyze" /\ Last(resolutions).ok

\* stdout took the except json.JSONDecodeError block
IsNonJson(text) == ~IsBlank(text) /\ ~json_loads(text).ok

\* lexeme i is the colon that ends one of the four labels
EndsLabel(text, i) ==
    /\ At(text, i) = P(":")
    /\ \/ \E w \in {"edited", "modified", "created"} : IsWord(At(text, i - 1), w)
       \/ /\ IsWord(At(text, i - 1), "to")
          /\ At(text, i - 2) = Sp
          /\ IsWord(At(text, i - 3), "writing")

\* the rest of the line from lexeme i on
Remainder(text, i) ==
    SubSeq(text, i, CHOOSE j \in i..Len(text) :
                        /\ \A k \in i..j : text[k] # Nl
                        /\ (j = Len(text) \/ text[j + 1] = Nl))

\* what is captured after the labels: the rest of the line, past the white space
Captured(text) ==
    {Remainder(text, SkipSpace(text, i + 1)) :
        i \in {k \in 1..Len(text) : EndsLabel(text, k) /\ SkipSpace(text, k + 1) <= Len(text)}}

Document(o) == json_loads(o.args.output).v

\* stdout is a JSON object of the consumed shape: usage, when there, is a record,
\* and tool_calls, when there, is a sequence of records
IsExpectedObject(text) ==
    /\ ~IsBlank(text)
    /\ json_loads(text).ok
    /\ LET d == json_loads(text).v
       IN  /\ d.k = "obj"
           /\ "usage" \in DOMAIN d.m => d.m["usage"].k = "obj"
           /\ "tool_calls" \in DOMAIN d.m =>
                 /\ d.m["tool_calls"].k = "arr"
                 /\ \A j \in 1..Len(d.m["tool_calls"].a) : d.m["tool_calls"].a[j].k = "obj"

\* usage.<field> of the document, 0 when the record or the field is missing
UsageField(d, field) ==
    IF "usage" \in DOMAIN d.m /\ field \in DOMAIN d.m["usage"].m
    THEN d.m["usage"].m[field].n
    ELSE 0

\* C12: for stdout that is a well-formed JSON object, input_tokens and
\* output_tokens are exactly usage.input_tokens and usage.output_tokens of the
\* document, and 0 when the usage record or the field is missing.
C12_UsageRoundTrip ==
    (Analyzed(out) /\ IsExpectedObject(out.args.output)) =>
        /\ ~out.raised
        /\ out.ports.input_tokens = UsageField(Document(out), "input_tokens")
        /\ out.ports.output_tokens = UsageField(Document(out), "output_tokens")
        /\ out.args.output = UsageJson =>
              out.ports.input_tokens = 42 /\ out.ports.output_tokens = 5
        /\ out.args.output = InputOnlyJson =>
              out.ports.input_tokens = 42 /\ out.ports.output_tokens = 0
        /\ out.args.output = ResultJson =>
              out.ports.input_tokens = 0 /\ out.ports.output_tokens = 0

C12_Witness ==
    /\ Analyzed(out)
    /\ out.args.output = UsageJson
    /\ out.ports.input_tokens = 42
    /\ out.ports.output_tokens = 5


\* the top-level cost field of the document in hundredths, 0 when it is missing
TopLevelCost(d) ==
    IF "total_cost_usd" \in DOMAIN d.m THEN d.m["total_cost_usd"].n ELSE 0

\* C13: for stdout that is a well-formed JSON object, total_cost is the
\* top-level total_cost_usd of the document, not a field of the usage record,
\* and 0 when the document has no top-level cost field.
C13_CostFromTopLevel ==
    (Analyzed(out) /\ IsExpectedObject(out.args.output)) =>
        /\ ~out.raised
        /\ out.ports.total_cost = TopLevelCost(Document(out))

\* C14: no shape of stdout makes the analysis raise: text that is not JSON, and
\* JSON that is not an object of the consumed shape (a bare number, a usage
\* field that is no record, a tool_calls entry that is no record), give the
\* result of the regex fallback.
C14_ShapeNeverRaises ==
    (Analyzed(out) /\ ~IsBlank(out.args.output) /\ ~IsExpectedObject(out.args.output)) =>
        /\ ~out.raised
        /\ out.ports = FallbackPath(out.args.output, InitialPorts(out.args.error))

\* the document says the run failed
IsErrorDocument(d) ==
    "is_error" \in DOMAIN d.m /\ d.m["is_error"] = JLit("true")

\* C15: for stdout that is a JSON object, success is true only when the
\* document indicates no error; a document whose is_error flag is set gives
\* success = False even when stderr is empty.
C15_JsonSuccessReadsDocument ==
    (/\ Analyzed(out)
     /\ IsExpectedObject(out.args.output)
     /\ IsErrorDocument(Document(out))) =>
        /\ ~out.raised
        /\ ~out.ports.success


\* C19: empty or white-space-only stdout gives the result of the regex
\* fallback on a text with no match: tokens 0, cost 0, no files, and the
\* edit_summary "No files were edited".
C19_BlankIsFallback ==
    (Analyzed(out) /\ IsBlank(out.args.output)) =>
        /\ ~out.raised
        /\ out.ports.input_tokens = 0
        /\ out.ports.output_tokens = 0
        /\ out.ports.total_cost = 0
        /\ out.ports.files_edited = {}
        /\ out.ports.edit_summary.text = "No files were edited"

----------------------------------------------------------------------------
(* Properties of the resolution. *)

\* C16: a call of the analyzer runs no subprocess, leaves the context as it
\* was, and its outcome is a function of stdout and stderr alone, whatever the
\* credential, the private binary and the host are.
C16_AnalyzeNoIO ==
    out.op = "Analyze" =>
        /\ out.procs = <<>>
        /\ ("claude_cmd" \in DOMAIN ctx) = out.had_cmd
        /\ out.raised = AnalyzePorts(out.args.output, out.args.error).raised
        /\ out.ports = AnalyzePorts(out.args.output, out.args.error).ports

\* the subprocesses of the resolution, as the source runs them
GlobalProbe == [argv |-> <<GlobalBin, "--version">>, cwd |-> Cwd,
                timeout |-> GlobalProbeTimeout, input |-> ""]
FinalProbe(cmd) == [argv |-> <<cmd, "--version">>, cwd |-> Cwd,
                    timeout |-> FinalProbeTimeout, input |-> ""]
NpmInstall == [argv |-> <<"npm", "install", "@anthropic-ai/claude-code">>,
               cwd |-> ClaudeDir, timeout |-> 0, input |-> ""]

\* C17: a resolution that passed the credential check searches in a fixed
\* order.  With the private binary there, it is the one chosen: PATH is not
\* probed and nothing is installed.  Without it, a binary on PATH is chosen
\* only when its --version probe exits 0; when the probe fails or times out,
\* or PATH has none, npm install runs next.  After npm install the private
\* binary is there and is the one chosen, or the resolution fails.
C17_SearchOrder ==
    [][(out'.ensured /\ environ'["ANTHROPIC_API_KEY"] # "") =>
          LET ps == SelectSeq(out'.procs, IsResolutionProc)
          IN  /\ claude_bin_ok => ps = <<FinalProbe(LocalBin)>>
              /\ (~claude_bin_ok /\ host.global_claude = "ok") =>
                    ps = <<GlobalProbe, FinalProbe(GlobalBin)>>
              /\ (~claude_bin_ok /\ host.global_claude \in {"nonzero", "timeout"}) =>
                    Len(ps) >= 2 /\ ps[1] = GlobalProbe /\ ps[2] = NpmInstall
              /\ (~claude_bin_ok /\ host.global_claude = "absent") =>
                    Len(ps) >= 1 /\ ps[1] = NpmInstall
              /\ NpmInstall \in Elems(ps) =>
                    IF host.npm = "installs"
                    THEN claude_bin_ok' /\ Last(ps) = FinalProbe(LocalBin)
                    ELSE /\ Failed(out')
                         /\ Last(ps) = NpmInstall
                         /\ "claude_cmd" \notin DOMAIN ctx'
    ]_vars

C17_Witness ==
    /\ out.ensured
    /\ host.global_claude = "timeout"
    /\ out.procs = <<GlobalProbe, NpmInstall, FinalProbe(LocalBin)>>
    /\ ~Failed(out)
    /\ ctx["claude_cmd"] = LocalBin

\* the call ran the final probe and it did not exit 0
FinalProbeFailed(o) ==
    \E i \in 1..Len(o.procs) :
        /\ o.procs[i].timeout = FinalProbeTimeout
        /\ Last(o.procs[i].argv) = "--version"
        /\ ProbeOf(o.procs[i].argv[1]) # "ok"

\* C18: a path in ctx['claude_cmd'] is one whose final --version probe exits 0,
\* and the call that resolved it ran that probe; a call whose final probe exits
\* non-zero or times out fails and leaves ctx['claude_cmd'] as it was.
C18_StoredPathPassedProbe ==
    /\ "claude_cmd" \in DOMAIN ctx => ProbeOf(ctx["claude_cmd"]) = "ok"
    /\ (out.ensured /\ ~Failed(out)) =>
          /\ "claude_cmd" \in DOMAIN ctx
          /\ FinalProbe(ctx["claude_cmd"]) \in Elems(SelectSeq(out.procs, IsResolutionProc))
    /\ (out.ensured /\ FinalProbeFailed(out)) =>
          /\ Failed(out)
          /\ ("claude_cmd" \in DOMAIN ctx) = out.had_cmd

C18_Witness ==
    /\ out.ensured
    /\ claude_bin_ok
    /\ host.local_probe = "timeout"
    /\ out.procs = <<FinalProbe(LocalBin)>>
    /\ Failed(out)
    /\ "claude_cmd" \notin DOMAIN ctx

============================================================================
